---- MODULE Spec2Model ----
(***************************************************************************)
(* Order lifecycle of the ByteKart backend: cart, checkout with discount   *)
(* codes, payment confirmation, admin status changes and returns.          *)
(*                                                                         *)
(* Every request handler runs in a database session of its own.  A handler *)
(* that reads, then awaits, then commits is split at the await into a      *)
(* "begin" action (the reads, the checks, the gateway call) and a "commit" *)
(* action (the flush and commit), so that two requests can interleave the  *)
(* way two sessions do.  The local variables a handler carries across the  *)
(* split live in its slot of tx.                                           *)
(*                                                                         *)
(* Money is counted in hundredths of the currency unit (paise), so that    *)
(* round(x, 2) of the source is rounding to a whole number here.           *)
(***************************************************************************)
EXTENDS Integers, Sequences, FiniteSets, TLC

\* ---------------------------------------------------------------- bounds
MaxOrders == 2
MaxIntents == 3
MaxConc == 2
MaxRedeems == 1
MaxSeqOrders == 1
MaxCodes == 4

\* ------------------------------------------------------------- constants
ReturnWindowDays == 7
HoursPerDay == 24

None == "None"

\* no row for the key / a ShoppingCart row
NoRow == [row |-> FALSE]

Cart(items) == [row |-> TRUE, items |-> items]

\* the items of a cart row, none when there is no row
Items(cart) == IF cart.row THEN cart.items ELSE <<>>

\* an idle handler slot
Idle == [op |-> "idle"]

Users == {"u1", "u2"}

OrderStatus ==
    {"pending", "paid", "failed", "shipped", "delivered", "return_requested", "returned"}

ReturnStatus == {"pending", "approved", "rejected"}

\* ------------------------------------------------------- pure functions
Max(a, b) == IF a >= b THEN a ELSE b

Min(a, b) == IF a <= b THEN a ELSE b

\* dict.get(key, default)
Get(d, k, default) == IF k \in DOMAIN d THEN d[k] ELSE default

\* round(n / d) to the nearest whole number, ties to the even one (d > 0)
RoundHalfEven(n, d) ==
    LET q == n \div d
        r == n % d
    IN  IF 2 * r < d THEN q
        ELSE IF 2 * r > d THEN q + 1
        ELSE IF q % 2 = 0 THEN q ELSE q + 1

\* str.upper() on the characters the model uses
UpperChar(c) ==
    CASE c = "a" -> "A"
      [] c = "b" -> "B"
      [] c = "c" -> "C"
      [] c = "d" -> "D"
      [] OTHER -> c

Upper(s) == [i \in 1..Len(s) |-> UpperChar(s[i])]

RECURSIVE LStrip(_)
LStrip(s) == IF s # <<>> /\ Head(s) = " " THEN LStrip(Tail(s)) ELSE s

RECURSIVE RStrip(_)
RStrip(s) ==
    IF s # <<>> /\ s[Len(s)] = " " THEN RStrip(SubSeq(s, 1, Len(s) - 1)) ELSE s

\* str.strip()
Strip(s) == RStrip(LStrip(s))

\* a normalisation that strips and keeps the letter case
NormalizeCodeKeepsCase(s) == Strip(s)

\* order_data.redeem_code.strip().upper()
NormalizeCode(s) == Upper(Strip(s))

\* sum(item.get('price', 0) * item.get('quantity', 1) for item in items)
RECURSIVE Subtotal(_)
Subtotal(items) ==
    IF items = <<>> THEN 0
    ELSE Get(Head(items), "price", 0) * Get(Head(items), "quantity", 1)
         + Subtotal(Tail(items))

\* the discount a redeem code gives on a subtotal
Discount(redeem, subtotal) ==
    IF redeem.discount_type = "percentage"
    THEN RoundHalfEven(subtotal * redeem.discount_value, 100)
    ELSE Min(redeem.discount_value, subtotal)

TotalAmountNoFloor(subtotal, discount, shipping_fee) ==
    subtotal - discount + shipping_fee

TotalAmountIgnoringFee(subtotal, discount, shipping_fee) == Max(subtotal - discount, 0)

\* max(subtotal - discount + order_data.shipping_fee, 0)
TotalAmount(subtotal, discount, shipping_fee) ==
    Max(subtotal - discount + shipping_fee, 0)

\* the signature the gateway issues for a completed payment
ExpectedSignature(gid, pid) == <<"sig", gid, pid>>

\* verify_payment: TRUE on a matching signature, FALSE on a mismatch
verify_payment(gid, pid, sig) == sig = ExpectedSignature(gid, pid)

\* ---------------------------------------------------------------- state
VARIABLES
    carts,      \* ShoppingCart rows: user -> NoRow or Cart(items)
    codes,      \* RedeemCode rows: id -> row
    orders,     \* Order rows in insertion order; the index is the order id
    returns,    \* ReturnRequest rows in insertion order; the index is the id
    checkout,   \* CheckoutDetails rows: user -> NoRow or the row
    intents,    \* number of order intents the payment gateway has created
    now,        \* the clock, in hours
    tx,         \* in-flight handlers: slot -> Idle or the handler's locals
    resp,       \* the response of the handler that completed last
    mail,       \* the notifications that handler dispatched
    ledger,     \* history: per order, the code it redeemed and the discount
    verified    \* history: (gateway order id, payment id) pairs verified TRUE

vars == <<carts, codes, orders, returns, checkout, intents, now, tx, resp, mail,
          ledger, verified>>

db == <<carts, codes, orders, returns, checkout>>

Slots == 1..MaxConc

OrderIds == 1..Len(orders)

FreeSlots == {s \in Slots : tx[s] = Idle}

CreatesInFlight == Cardinality({s \in Slots : tx[s] # Idle /\ tx[s].op = "create_order"})

\* a response, with the order (or gateway order) the request named
ResponseFor(op, ref, result) == [op |-> op, ref |-> ref, result |-> result]

Response(op, result) == ResponseFor(op, 0, result)

\* the first row a select ... where code = c returns, 0 when there is none
CodeByName(c) ==
    LET hit == {id \in DOMAIN codes : codes[id].code = c}
    IN  IF hit = {} THEN 0 ELSE CHOOSE id \in hit : \A other \in hit : id <= other

SeedCodes ==
    (1 :> [code |-> <<"A">>, is_active |-> TRUE, discount_type |-> "percentage",
           discount_value |-> 10, max_redeems |-> MaxRedeems, times_redeemed |-> 0])
    @@
    (2 :> [code |-> <<"B">>, is_active |-> TRUE, discount_type |-> "fixed",
           discount_value |-> 500000, max_redeems |-> MaxRedeems, times_redeemed |-> 0])
    @@
    (3 :> [code |-> <<"C">>, is_active |-> FALSE, discount_type |-> "fixed",
           discount_value |-> 100, max_redeems |-> MaxRedeems, times_redeemed |-> 0])

Init ==
    /\ carts = [u \in Users |-> NoRow]
    /\ codes = SeedCodes
    /\ orders = <<>>
    /\ returns = <<>>
    /\ checkout = [u \in Users |-> NoRow]
    /\ intents = 0
    /\ now = 0
    /\ tx = [s \in Slots |-> Idle]
    /\ resp = Response("none", "none")
    /\ mail = <<>>
    /\ ledger = <<>>
    /\ verified = {}

\* ------------------------------------------------------------------ cart
\* a cart write that also rewrites the items of the account's pending orders
update_user_cart_rewrites_orders(u, owner, items) ==
    /\ \/ /\ owner # u
          /\ resp' = Response("update_user_cart", "Not authorized to update this cart")
          /\ UNCHANGED <<carts, orders>>
       \/ /\ owner = u
          /\ carts' = [carts EXCEPT ![u] = Cart(items)]
          /\ orders' = [o \in OrderIds |->
                          IF orders[o].user_id = u /\ orders[o].status = "pending"
                          THEN [orders[o] EXCEPT !.items = items]
                          ELSE orders[o]]
          /\ resp' = Response("update_user_cart", "ok")
    /\ mail' = <<>>
    /\ UNCHANGED <<codes, returns, checkout, intents, now, tx, ledger, verified>>

\* PUT /cart
update_user_cart(u, owner, items) ==
    /\ \/ /\ owner # u
          /\ resp' = Response("update_user_cart", "Not authorized to update this cart")
          /\ UNCHANGED carts
       \/ /\ owner = u
          /\ carts' = [carts EXCEPT ![u] = Cart(items)]
          /\ resp' = Response("update_user_cart", "ok")
    /\ mail' = <<>>
    /\ UNCHANGED <<codes, orders, returns, checkout, intents, now, tx, ledger, verified>>

\* -------------------------------------------------------------- checkout
\* CheckoutDetails(user_id=...): every optional column is None
EmptyDetails ==
    [row |-> TRUE, phone |-> None, address |-> None, city |-> None, pincode |-> None]

\* the upsert of the account's checkout details from the shipping address
UpsertDetails(detail, address_data) ==
    LET d == IF detail = NoRow THEN EmptyDetails ELSE detail
    IN  [row     |-> TRUE,
         phone   |-> Get(address_data, "phone", d.phone),
         address |-> Get(address_data, "address", d.address),
         city    |-> Get(address_data, "city", d.city),
         pincode |-> Get(address_data, "pincode", d.pincode)]

\* if order_data.redeem_code: an absent code and the empty string are falsy
CodeSupplied(order_data) ==
    "redeem_code" \in DOMAIN order_data /\ order_data.redeem_code # <<>>

\* the redeem code row a request names, 0 when it names none or none matches
RequestedCode(order_data) ==
    IF CodeSupplied(order_data) THEN CodeByName(NormalizeCode(order_data.redeem_code))
    ELSE 0

\* not redeem or not redeem.is_active or redeem.times_redeemed >= redeem.max_redeems
CodeRejected(id) ==
    IF id = 0 THEN TRUE
    ELSE IF ~codes[id].is_active THEN TRUE
    ELSE codes[id].times_redeemed >= codes[id].max_redeems

NextTimesRedeemedStored(read, stored) == stored + 1

\* applied_redeem_code.times_redeemed += 1 on the row as the session read it
NextTimesRedeemed(read, stored) == read + 1

\* POST /orders up to the construction of the Order: the cart and the code
\* are read and checked, the total is computed, the gateway intent is created
create_order_begin(u, order_data) ==
    LET cart     == carts[u]
        id       == RequestedCode(order_data)
        subtotal == Subtotal(Items(cart))
        shipping_fee == order_data.shipping_fee
        discount == IF id = 0 THEN 0 ELSE Discount(codes[id], subtotal)
        total    == TotalAmount(subtotal, discount, shipping_fee)
        s        == CHOOSE f \in FreeSlots : \A g \in FreeSlots : f <= g
        NoItems  == Items(cart) = <<>>
    IN  /\ \/ /\ NoItems
              /\ resp' = Response("create_order", "Cart is empty")
              /\ UNCHANGED <<tx, intents>>
           \/ /\ ~NoItems
              /\ CodeSupplied(order_data) /\ CodeRejected(id)
              /\ resp' = Response("create_order", "Invalid or expired redeem code")
              /\ UNCHANGED <<tx, intents>>
           \/ /\ ~NoItems
              /\ CodeSupplied(order_data) => ~CodeRejected(id)
              /\ resp' = Response("create_order", "Payment gateway error. Please try again.")
              /\ UNCHANGED <<tx, intents>>
           \/ /\ ~NoItems
              /\ CodeSupplied(order_data) => ~CodeRejected(id)
              /\ FreeSlots # {}
              /\ intents < MaxIntents
              /\ Len(orders) + CreatesInFlight < MaxOrders
              /\ intents' = intents + 1
              /\ tx' = [tx EXCEPT ![s] =
                          [op |-> "create_order", user |-> u, gid |-> intents + 1,
                           items |-> Items(cart),
                           shipping_address |-> order_data.shipping_address,
                           shipping_fee |-> shipping_fee, total_amount |-> total,
                           discount |-> discount, redeem |-> id,
                           times_redeemed |-> IF id = 0 THEN 0 ELSE codes[id].times_redeemed,
                           created_at |-> now]]
              /\ UNCHANGED resp
        /\ mail' = <<>>
        /\ UNCHANGED <<db, now, ledger, verified>>

\* a failed commit that is answered like a success
create_order_rollback_silent(s) ==
    /\ resp' = Response("create_order", "ok")
    /\ tx' = [tx EXCEPT ![s] = Idle]
    /\ UNCHANGED <<db, ledger>>

\* a rollback that keeps the flushed counter
create_order_rollback_keeps_counter(s) ==
    LET t == tx[s]
    IN  /\ codes' = IF t.redeem = 0 THEN codes
                    ELSE [codes EXCEPT ![t.redeem].times_redeemed = t.times_redeemed + 1]
        /\ resp' = Response("create_order", "Could not process order.")
        /\ tx' = [tx EXCEPT ![s] = Idle]
        /\ UNCHANGED <<carts, orders, returns, checkout, ledger>>

\* the commit fails: session.rollback() and the 500
create_order_rollback(s) ==
    /\ resp' = Response("create_order", "Could not process order.")
    /\ tx' = [tx EXCEPT ![s] = Idle]
    /\ UNCHANGED <<db, ledger>>

\* the flush and commit: the Order insert, the checkout-details upsert and
\* the update of the redeem code's counter
create_order_persist(s) ==
    LET t == tx[s]
    IN  /\ orders' = Append(orders,
              [user_id |-> t.user, razorpay_order_id |-> t.gid,
               razorpay_payment_id |-> None, items |-> t.items,
               shipping_address |-> t.shipping_address,
               shipping_fee |-> t.shipping_fee, total_amount |-> t.total_amount,
               status |-> "pending", created_at |-> t.created_at])
        /\ checkout' = [checkout EXCEPT
              ![t.user] = UpsertDetails(checkout[t.user], t.shipping_address)]
        /\ codes' = IF t.redeem = 0 THEN codes
                    ELSE [codes EXCEPT ![t.redeem].times_redeemed =
                            NextTimesRedeemed(t.times_redeemed,
                                              codes[t.redeem].times_redeemed)]
        /\ ledger' = Append(ledger, [code |-> t.redeem, discount |-> t.discount])
        /\ resp' = Response("create_order", "ok")
        /\ tx' = [tx EXCEPT ![s] = Idle]
        /\ UNCHANGED <<carts, returns>>

\* POST /orders from the checkout-details read to the response
create_order_commit(s) ==
    /\ tx[s] # Idle
    /\ tx[s].op = "create_order"
    /\ \/ create_order_persist(s)
       \/ create_order_rollback(s)
    /\ mail' = <<>>
    /\ UNCHANGED <<intents, now, verified>>

\* --------------------------------------------------------------- payment
\* select(Order).where(Order.razorpay_order_id == gid) ... .first(); 0 for none
OrderByGatewayId(gid) ==
    LET hit == {o \in OrderIds : orders[o].razorpay_order_id = gid}
    IN  IF hit = {} THEN 0 ELSE CHOOSE o \in hit : \A other \in hit : o <= other

\* the notifications a handler got out when it dispatches `wanted` in one try
\* block: a failure is swallowed and skips the rest
Dispatched(wanted) == {SubSeq(wanted, 1, n) : n \in 0..Len(wanted)}

\* the notifications a handler got out when each has a try block of its own
DispatchedEach(wanted) ==
    {SubSeq(wanted, 1, 1) \o rest : rest \in Dispatched(SubSeq(wanted, 2, Len(wanted)))}
    \cup Dispatched(SubSeq(wanted, 2, Len(wanted)))

\* a dispatch failure that reaches the caller as an error
AfterDispatchRaises(result, sent, wanted) ==
    IF sent # wanted THEN "Internal Server Error" ELSE result

\* the handler's result after the dispatch of `wanted`, of which `sent` got
\* out: a failure is logged and swallowed
AfterDispatch(result, sent, wanted) == result

\* a rejection that still clears the caller's cart
verify_payment_reject_clears_cart(u, gid) ==
    /\ resp' = ResponseFor("verify_payment", gid, "Signature verification failed")
    /\ carts' = [carts EXCEPT ![u] = IF @.row THEN Cart(<<>>) ELSE @]
    /\ mail' = <<>>
    /\ UNCHANGED <<codes, orders, returns, checkout, verified>>

\* a rejection that still records a payment id on the order
verify_payment_reject_records_payment_id(u, gid) ==
    LET o == OrderByGatewayId(gid)
    IN  /\ resp' = ResponseFor("verify_payment", gid, "Signature verification failed")
        /\ mail' = <<>>
        /\ orders' = IF o = 0 THEN orders
                      ELSE [orders EXCEPT ![o].razorpay_payment_id = "unverified"]
        /\ UNCHANGED <<carts, codes, returns, checkout, verified>>

\* is_valid is False: the 400
verify_payment_reject(u, gid) ==
    /\ resp' = ResponseFor("verify_payment", gid, "Signature verification failed")
    /\ mail' = <<>>
    /\ UNCHANGED <<db, verified>>

\* a confirmation that sends its first notification before a commit that fails
verify_payment_rollback_after_dispatch(gid) ==
    /\ resp' = ResponseFor("verify_payment", gid,
                           "Payment validated but failed to update order status.")
    /\ mail' = <<"order_confirmation">>
    /\ UNCHANGED db

\* the commit fails: session.rollback() and the 500, before any notification
verify_payment_rollback(gid) ==
    /\ resp' = ResponseFor("verify_payment", gid,
                           "Payment validated but failed to update order status.")
    /\ mail' = <<>>
    /\ UNCHANGED db

\* is_valid is True: the order with the gateway order id is marked paid, the
\* caller's cart is emptied, the commit, then the two notifications
verify_payment_accept(u, gid, pid) ==
    LET o == OrderByGatewayId(gid)
    IN  /\ verified' = verified \cup {<<gid, pid>>}
        /\ \/ /\ o = 0
              /\ resp' = ResponseFor("verify_payment", gid, "ok")
              /\ mail' = <<>>
              /\ UNCHANGED db
           \/ /\ o # 0
              /\ orders' = [orders EXCEPT ![o].status = "paid",
                                          ![o].razorpay_payment_id = pid]
              /\ carts' = [carts EXCEPT ![u] = IF @.row THEN Cart(<<>>) ELSE @]
              /\ mail' \in Dispatched(<<"order_confirmation", "new_order">>)
              /\ resp' = ResponseFor("verify_payment", gid,
                    AfterDispatch("ok", mail', <<"order_confirmation", "new_order">>))
              /\ UNCHANGED <<codes, returns, checkout>>
           \/ /\ o # 0
              /\ verify_payment_rollback(gid)

\* a service error that marks the order failed
verify_payment_service_error_fails_order(gid) ==
    LET o == OrderByGatewayId(gid)
    IN  /\ resp' = ResponseFor("verify_payment", gid, "Payment verification service error")
        /\ mail' = <<>>
        /\ orders' = IF o = 0 THEN orders ELSE [orders EXCEPT ![o].status = "failed"]
        /\ UNCHANGED <<carts, codes, returns, checkout, verified>>

\* verify_payment raises something other than a signature mismatch: the 500
verify_payment_service_error(gid) ==
    /\ resp' = ResponseFor("verify_payment", gid, "Payment verification service error")
    /\ mail' = <<>>
    /\ UNCHANGED <<db, verified>>

\* POST /verify/payment
verify_payment_endpoint(u, gid, pid, sig) ==
    /\ \/ verify_payment_service_error(gid)
       \/ /\ ~verify_payment(gid, pid, sig)
          /\ verify_payment_reject(u, gid)
       \/ /\ verify_payment(gid, pid, sig)
          /\ verify_payment_accept(u, gid, pid)
    /\ UNCHANGED <<intents, now, tx, ledger>>

\* an order read that tells a foreign order from a missing one
get_order_forbidden(u, id) ==
    /\ resp' = IF id \notin OrderIds
               THEN ResponseFor("get_order", id, "Order not found")
               ELSE IF orders[id].user_id # u
               THEN ResponseFor("get_order", id, "Not authorized")
               ELSE [op |-> "get_order", ref |-> id, result |-> "ok", order |-> orders[id]]
    /\ mail' = <<>>
    /\ UNCHANGED <<db, intents, now, tx, ledger, verified>>

\* GET /orders/{id}: the order with that id and the caller as its owner
get_order(u, id) ==
    /\ resp' = IF id \notin OrderIds
               THEN ResponseFor("get_order", id, "Order not found")
               ELSE IF orders[id].user_id # u
               THEN ResponseFor("get_order", id, "Order not found")
               ELSE [op |-> "get_order", ref |-> id, result |-> "ok", order |-> orders[id]]
    /\ mail' = <<>>
    /\ UNCHANGED <<db, intents, now, tx, ledger, verified>>

\* ----------------------------------------------------------------- admin
\* PUT /admin/orders/{id}/status
admin_update_order_status(id, status) ==
    /\ \/ /\ id \notin OrderIds
          /\ resp' = ResponseFor("admin_update_order_status", id, "Order not found")
          /\ mail' = <<>>
          /\ UNCHANGED orders
       \/ /\ id \in OrderIds
          /\ orders' = [orders EXCEPT ![id].status = status]
          /\ mail' \in Dispatched(<<"order_status_update">>)
          /\ resp' = ResponseFor("admin_update_order_status", id,
                AfterDispatch("ok", mail', <<"order_status_update">>))
       \/ /\ id \in OrderIds
          /\ resp' = ResponseFor("admin_update_order_status", id, "Failed to update order status.")
          /\ mail' = <<>>
          /\ UNCHANGED orders
    /\ UNCHANGED <<carts, codes, returns, checkout, intents, now, tx, ledger, verified>>

\* the row after setattr(redeem, key, value) for every key of update_data
\* that is a column other than id; a code is stripped and upper-cased
UpdatedCode(redeem, update_data) ==
    [k \in DOMAIN redeem |->
        IF k \in DOMAIN update_data
        THEN IF k = "code" THEN NormalizeCode(update_data[k]) ELSE update_data[k]
        ELSE redeem[k]]

\* the uniqueness of the code string over the RedeemCode rows
UniqueCodeHolds(rows) ==
    \A i \in DOMAIN rows, j \in DOMAIN rows : i # j => rows[i].code # rows[j].code

\* the id of a new RedeemCode row
NewCodeId == CHOOSE id \in 1..MaxCodes \ DOMAIN codes :
                \A other \in 1..MaxCodes \ DOMAIN codes : id <= other

\* POST /admin/redeem-codes up to the commit: the code is normalised and
\* looked up
admin_create_redeem_code_begin(code_data) ==
    LET row == [code_data EXCEPT !.code = NormalizeCode(@)]
        s   == CHOOSE f \in FreeSlots : \A g \in FreeSlots : f <= g
    IN  /\ \/ /\ CodeByName(row.code) # 0
              /\ resp' = Response("admin_create_redeem_code",
                                   "A code with this name already exists")
              /\ UNCHANGED tx
           \/ /\ CodeByName(row.code) = 0
              /\ FreeSlots # {}
              /\ tx' = [tx EXCEPT ![s] = [op |-> "admin_create_redeem_code", row |-> row]]
              /\ UNCHANGED resp
        /\ mail' = <<>>
        /\ UNCHANGED <<db, intents, now, ledger, verified>>

\* POST /admin/redeem-codes: the insert and the commit
admin_create_redeem_code_commit(s) ==
    /\ tx[s].op = "admin_create_redeem_code"
    /\ \/ /\ DOMAIN codes # 1..MaxCodes
          /\ UniqueCodeHolds(codes @@ (NewCodeId :> tx[s].row))
          /\ codes' = codes @@ (NewCodeId :> tx[s].row)
          /\ resp' = Response("admin_create_redeem_code", "ok")
       \/ /\ resp' = Response("admin_create_redeem_code", "Internal Server Error")
          /\ UNCHANGED codes
    /\ tx' = [tx EXCEPT ![s] = Idle]
    /\ mail' = <<>>
    /\ UNCHANGED <<carts, orders, returns, checkout, intents, now, ledger, verified>>

\* DELETE /admin/redeem-codes/{id}
admin_delete_redeem_code(id) ==
    /\ \/ /\ id \notin DOMAIN codes
          /\ resp' = Response("admin_delete_redeem_code", "Redeem code not found")
          /\ UNCHANGED codes
       \/ /\ id \in DOMAIN codes
          /\ codes' = [i \in DOMAIN codes \ {id} |-> codes[i]]
          /\ resp' = Response("admin_delete_redeem_code", "ok")
       \/ /\ id \in DOMAIN codes
          /\ resp' = Response("admin_delete_redeem_code", "Internal Server Error")
          /\ UNCHANGED codes
    /\ mail' = <<>>
    /\ UNCHANGED <<carts, orders, returns, checkout, intents, now, tx, ledger, verified>>

\* PUT /admin/redeem-codes/{id}
admin_update_redeem_code(id, update_data) ==
    /\ \/ /\ id \notin DOMAIN codes
          /\ resp' = Response("admin_update_redeem_code", "Redeem code not found")
          /\ UNCHANGED codes
       \/ /\ id \in DOMAIN codes
          /\ UniqueCodeHolds([codes EXCEPT ![id] = UpdatedCode(@, update_data)])
          /\ codes' = [codes EXCEPT ![id] = UpdatedCode(@, update_data)]
          /\ resp' = Response("admin_update_redeem_code", "ok")
       \/ /\ id \in DOMAIN codes
          /\ resp' = Response("admin_update_redeem_code", "Internal Server Error")
          /\ UNCHANGED codes
    /\ mail' = <<>>
    /\ UNCHANGED <<carts, orders, returns, checkout, intents, now, tx, ledger, verified>>

\* --------------------------------------------------------------- returns
\* whole days, a started day counted as a whole one
DaysSinceRoundedUp(created_at) == (now - created_at + HoursPerDay - 1) \div HoursPerDay

\* (datetime.now(utc) - order_date).days: whole days, rounded down
DaysSince(created_at) == (now - created_at) \div HoursPerDay

\* the return requests of an order
ReturnsOf(id) == {r \in 1..Len(returns) : returns[r].order_id = id}

\* the checks of initiate_return with rejected requests not counted as prior
ReturnPrecheckIgnoringRejected(u, id) ==
    IF id \notin OrderIds THEN "Order not found"
    ELSE IF orders[id].user_id # u THEN "Order not found"
    ELSE IF orders[id].status # "delivered" THEN "Only delivered orders can be returned"
    ELSE IF DaysSince(orders[id].created_at) > ReturnWindowDays
         THEN "Return window has expired (7 days from order date)"
    ELSE IF \E r \in ReturnsOf(id) : returns[r].status # "rejected"
         THEN "A return request for this order already exists"
    ELSE "ok"

\* the checks of initiate_return with the duplicate check moved first
ReturnPrecheckDuplicateFirst(u, id) ==
    IF id \notin OrderIds THEN "Order not found"
    ELSE IF orders[id].user_id # u THEN "Order not found"
    ELSE IF ReturnsOf(id) # {} THEN "A return request for this order already exists"
    ELSE IF orders[id].status # "delivered" THEN "Only delivered orders can be returned"
    ELSE IF DaysSince(orders[id].created_at) > ReturnWindowDays
         THEN "Return window has expired (7 days from order date)"
    ELSE "ok"

\* the checks of initiate_return in the order the handler makes them: the
\* detail of the first HTTPException raised, "ok" when none is
ReturnPrecheck(u, id) ==
    IF id \notin OrderIds THEN "Order not found"
    ELSE IF orders[id].user_id # u THEN "Order not found"
    ELSE IF orders[id].status # "delivered" THEN "Only delivered orders can be returned"
    ELSE IF DaysSince(orders[id].created_at) > ReturnWindowDays
         THEN "Return window has expired (7 days from order date)"
    ELSE IF ReturnsOf(id) # {} THEN "A return request for this order already exists"
    ELSE "ok"

\* POST /orders/{id}/return up to the commit: the order is read, the four
\* checks are made, the ReturnRequest is built
initiate_return_begin(u, id, reason) ==
    LET check == ReturnPrecheck(u, id)
        s     == CHOOSE f \in FreeSlots : \A g \in FreeSlots : f <= g
    IN  /\ \/ /\ check # "ok"
              /\ resp' = ResponseFor("initiate_return", id, check)
              /\ UNCHANGED tx
           \/ /\ check = "ok"
              /\ FreeSlots # {}
              /\ tx' = [tx EXCEPT ![s] =
                          [op |-> "initiate_return", user |-> u, order |-> id,
                           reason |-> reason]]
              /\ UNCHANGED resp
        /\ mail' = <<>>
        /\ UNCHANGED <<db, intents, now, ledger, verified>>

\* a commit that inserts the request and leaves the order's status alone
initiate_return_persist_keeps_status(s) ==
    LET t == tx[s]
    IN  /\ returns' = Append(returns,
              [order_id |-> t.order, user_id |-> t.user, reason |-> t.reason,
               status |-> "pending"])
        /\ UNCHANGED orders
        /\ resp' = ResponseFor("initiate_return", t.order, "ok")
        /\ mail' \in DispatchedEach(<<"return_request", "return_requested">>)

\* the commit: the ReturnRequest insert and the order's new status, then the
\* admin notification and the customer notification
initiate_return_persist(s) ==
    LET t == tx[s]
    IN  /\ returns' = Append(returns,
              [order_id |-> t.order, user_id |-> t.user, reason |-> t.reason,
               status |-> "pending"])
        /\ orders' = [orders EXCEPT ![t.order].status = "return_requested"]
        /\ mail' \in DispatchedEach(<<"return_request", "return_requested">>)
        /\ resp' = ResponseFor("initiate_return", t.order,
              AfterDispatch("ok", mail', <<"return_request", "return_requested">>))

\* a failed commit that leaves the inserted request behind
initiate_return_rollback_keeps_request(s) ==
    LET t == tx[s]
    IN  /\ returns' = Append(returns,
              [order_id |-> t.order, user_id |-> t.user, reason |-> t.reason,
               status |-> "pending"])
        /\ resp' = ResponseFor("initiate_return", t.order, "Could not save return request")
        /\ mail' = <<>>
        /\ UNCHANGED orders

\* the commit fails: session.rollback() and the 500
initiate_return_rollback(s) ==
    /\ resp' = ResponseFor("initiate_return", tx[s].order, "Could not save return request")
    /\ mail' = <<>>
    /\ UNCHANGED <<orders, returns>>

\* POST /orders/{id}/return from the commit to the response
initiate_return_commit(s) ==
    /\ tx[s].op = "initiate_return"
    /\ \/ initiate_return_persist(s)
       \/ initiate_return_rollback(s)
    /\ tx' = [tx EXCEPT ![s] = Idle]
    /\ UNCHANGED <<carts, codes, checkout, intents, now, ledger, verified>>

\* a decision that moves the order only on approval
OrderStatusForApprovalOnly(decision, current) ==
    IF decision = "approved" THEN "returned" ELSE current

\* the status the linked order gets for a decision
OrderStatusFor(decision, current) ==
    IF decision = "approved" THEN "returned"
    ELSE IF decision = "rejected" THEN "delivered"
    ELSE current

\* PUT /admin/returns/{id}/status
admin_update_return_status(id, status) ==
    /\ \/ /\ id \notin 1..Len(returns)
          /\ resp' = Response("admin_update_return_status", "Return request not found")
          /\ mail' = <<>>
          /\ UNCHANGED <<orders, returns>>
       \/ /\ id \in 1..Len(returns)
          /\ returns' = [returns EXCEPT ![id].status = status]
          /\ orders' = [orders EXCEPT ![returns[id].order_id].status =
                                          OrderStatusFor(status, @)]
          /\ mail' \in Dispatched(<<IF status = "approved" THEN "returned" ELSE "rejected">>)
          /\ resp' = ResponseFor("admin_update_return_status", returns[id].order_id,
                AfterDispatch("ok", mail',
                              <<IF status = "approved" THEN "returned" ELSE "rejected">>))
       \/ /\ id \in 1..Len(returns)
          /\ resp' = ResponseFor("admin_update_return_status", returns[id].order_id,
                                 "Failed to update return status")
          /\ mail' = <<>>
          /\ UNCHANGED <<orders, returns>>
    /\ UNCHANGED <<carts, codes, checkout, intents, now, tx, ledger, verified>>

\* ----------------------------------------------------------------- clock
\* the instants the clock visits: an order placed at 0 is 7 days old, one
\* hour short of 8 days old, and 8 days old
TimePoints ==
    {0, ReturnWindowDays * HoursPerDay, (ReturnWindowDays + 1) * HoursPerDay - 1,
     (ReturnWindowDays + 1) * HoursPerDay}

Tick ==
    /\ \E t \in TimePoints : t > now /\ now' = t
    /\ UNCHANGED <<db, intents, tx, resp, mail, ledger, verified>>

\* ---------------------------------------------------------------- inputs
CartA == <<[price |-> 49900, quantity |-> 1], [price |-> 100000, quantity |-> 2]>>

\* an item without a quantity counts once
CartB == <<[price |-> 20000]>>

AddrFull == [phone |-> "p1", address |-> "a1", city |-> "c1", pincode |-> "z1"]

AddrPhone == [phone |-> "p2"]

\* "a" names code A; "c" names the inactive code C; " " strips to the empty
\* string, which names no code
CodeTexts == {<<"a">>, <<"c">>, <<" ">>}

OrderData(addrs, fees, texts) ==
    [shipping_address : addrs, shipping_fee : fees]
    \cup [shipping_address : addrs, shipping_fee : fees, redeem_code : texts]

CheckoutOrderData == OrderData({AddrPhone}, {5000}, CodeTexts)

\* ------------------------------------------------- checkout specification
\* cart writes and concurrent order creation
CheckoutNext ==
    \/ \E u \in Users, owner \in Users, items \in {<<>>, CartA} :
          update_user_cart(u, owner, items)
    \/ \E u \in Users, d \in CheckoutOrderData : create_order_begin(u, d)
    \/ \E s \in Slots : create_order_commit(s)

Spec == Init /\ [][CheckoutNext]_vars

\* -------------------------------------------------- payment specification
\* checkout, payment confirmation and admin status changes
PaymentIds == {"pay1", "pay2"}

\* the signatures a client may send for (gid, pid): the gateway's own, the
\* gateway's signature of another payment, and a forged one
Signatures(gid, pid) ==
    {ExpectedSignature(gid, q) : q \in PaymentIds} \cup {<<"sig", gid, "forged">>}

PaymentOrderData == OrderData({AddrPhone}, {5000}, {})

\* the gateway order ids a client may send: those of the orders, and one the
\* gateway never issued
GatewayIds == {orders[o].razorpay_order_id : o \in OrderIds} \cup {MaxIntents + 1}

PaymentNext ==
    \/ \E u \in Users, owner \in Users : update_user_cart(u, owner, CartA)
    \/ \E u \in Users, d \in PaymentOrderData :
          /\ FreeSlots = Slots
          /\ Len(orders) < MaxSeqOrders
          /\ create_order_begin(u, d)
    \/ \E s \in Slots : create_order_commit(s)
    \/ \E u \in Users, gid \in GatewayIds, pid \in PaymentIds :
          \E sig \in Signatures(gid, pid) : verify_payment_endpoint(u, gid, pid, sig)
    \/ \E id \in 1..MaxOrders, status \in {"paid", "shipped", "failed"} :
          admin_update_order_status(id, status)

SpecPayment == Init /\ [][PaymentNext]_vars

\* -------------------------------------------------- pricing specification
\* one account checks out with and without codes and with several fees; its
\* cart, the codes and the order's status change afterwards
PricingOrderData ==
    OrderData({AddrPhone}, {5000, -300000}, {<<"a">>, <<" ", "B", " ">>})

\* the percentages an admin stores on code A: a half, and one and a half
PricingDiscountValues == {50, 150}

PricingNext ==
    \/ \E items \in {<<>>, CartA, CartB} : update_user_cart("u1", "u1", items)
    \/ \E d \in PricingOrderData :
          /\ FreeSlots = Slots
          /\ Len(orders) < MaxSeqOrders
          /\ create_order_begin("u1", d)
    \/ \E s \in Slots : create_order_commit(s)
    \/ \E gid \in GatewayIds :
          verify_payment_endpoint("u1", gid, "pay1", ExpectedSignature(gid, "pay1"))
    \/ \E id \in 1..MaxOrders : admin_update_order_status(id, "shipped")
    \/ \E id \in {1, 4}, v \in PricingDiscountValues :
          admin_update_redeem_code(id, [discount_value |-> v])

SpecPricing == Init /\ [][PricingNext]_vars

\* -------------------------------------------------- returns specification
\* orders are placed, moved through their statuses by the admin, returned by
\* their owners (two requests may be in flight at once) and decided
ReturnsOrderData == OrderData({AddrPhone}, {5000}, {})

ReturnsNext ==
    \/ update_user_cart("u1", "u1", CartA)
    \/ \E d \in ReturnsOrderData :
          /\ FreeSlots = Slots
          /\ Len(orders) < MaxSeqOrders
          /\ create_order_begin("u1", d)
    \/ \E s \in Slots : create_order_commit(s)
    \/ \E id \in 1..MaxOrders, status \in {"shipped", "delivered"} :
          admin_update_order_status(id, status)
    \/ \E u \in Users, id \in 1..MaxOrders : initiate_return_begin(u, id, "reason")
    \/ \E s \in Slots : initiate_return_commit(s)
    \/ \E id \in 1..MaxConc + 1, status \in ReturnStatus :
          admin_update_return_status(id, status)
    \/ Tick

SpecReturns == Init /\ [][ReturnsNext]_vars

\* ------------------------------------------------ lifecycle specification
\* one account takes an order from checkout through payment, shipping and
\* delivery to a return and its decision
LifecycleNext ==
    \/ \E items \in {CartA, CartB} : update_user_cart("u1", "u1", items)
    \/ admin_update_redeem_code(1, [discount_value |-> 50])
    \/ \E d \in ReturnsOrderData :
          /\ FreeSlots = Slots
          /\ Len(orders) < MaxSeqOrders
          /\ create_order_begin("u1", d)
    \/ \E s \in Slots : create_order_commit(s)
    \/ \E gid \in GatewayIds :
          verify_payment_endpoint("u1", gid, "pay1", ExpectedSignature(gid, "pay1"))
    \/ \E id \in 1..MaxOrders, status \in {"shipped", "delivered"} :
          admin_update_order_status(id, status)
    \/ \E id \in 1..MaxOrders : initiate_return_begin("u1", id, "reason")
    \/ \E s \in Slots : initiate_return_commit(s)
    \/ \E id \in 1..MaxConc + 1, status \in {"approved", "rejected"} :
          admin_update_return_status(id, status)

SpecLifecycle == Init /\ [][LifecycleNext]_vars

\* --------------------------------------------------- access specification
\* either account places the order; both accounts read orders and request
\* returns by id, for ids of their own, of the other account and of no order
AccessNext ==
    \/ \E u \in Users : update_user_cart(u, u, CartA)
    \/ \E u \in Users, d \in ReturnsOrderData :
          /\ FreeSlots = Slots
          /\ Len(orders) < MaxSeqOrders
          /\ create_order_begin(u, d)
    \/ \E s \in Slots : create_order_commit(s)
    \/ \E id \in 1..MaxOrders, status \in {"delivered", "failed"} :
          admin_update_order_status(id, status)
    \/ \E u \in Users, id \in 1..MaxOrders : initiate_return_begin(u, id, "reason")
    \/ \E s \in Slots : initiate_return_commit(s)
    \/ \E u \in Users, id \in 1..MaxOrders : get_order(u, id)

SpecAccess == Init /\ [][AccessNext]_vars

\* ---------------------------------------------------- codes specification
\* an admin creates, updates and deletes discount codes; two creations may
\* be in flight at once
NewCodeData ==
    [code : {<<"a">>, <<" ", "d">>}, is_active : {TRUE}, discount_type : {"fixed"},
     discount_value : {100}, max_redeems : {MaxRedeems},
     times_redeemed : {0}]

CodeUpdateData ==
    {[code |-> <<"a", " ">>], [code |-> <<"d">>], [times_redeemed |-> MaxRedeems + 1]}

CodesNext ==
    \/ \E code_data \in NewCodeData : admin_create_redeem_code_begin(code_data)
    \/ \E s \in Slots : admin_create_redeem_code_commit(s)
    \/ \E id \in {2, MaxCodes}, update_data \in CodeUpdateData :
          admin_update_redeem_code(id, update_data)
    \/ \E id \in {1, 2, MaxCodes} : admin_delete_redeem_code(id)

SpecCodes == Init /\ [][CodesNext]_vars

\* ------------------------------------------------------------ properties
\* the orders whose creation redeemed code id
RedeemedBy(id) == {o \in OrderIds : ledger[o].code = id}

\* C1: under any interleaving of order creations, the number of successfully
\* created orders that used a discount code never exceeds the code's
\* max_redeems (of N concurrent calls on the last slot, one succeeds).
C1_RedemptionsWithinMax ==
    \A id \in DOMAIN codes : Cardinality(RedeemedBy(id)) <= codes[id].max_redeems

\* C3: in every state reachable by interleaved order creations, every
\* discount code has times_redeemed <= max_redeems.
C3_CounterWithinMax ==
    \A id \in DOMAIN codes : codes[id].times_redeemed <= codes[id].max_redeems

\* two creations raced on the last slot of a code, and its counter is at the max
C3_Witness ==
    \E id \in DOMAIN codes :
        /\ codes[id].times_redeemed = codes[id].max_redeems
        /\ Cardinality(RedeemedBy(id)) > codes[id].max_redeems

\* a step in which an order creation fails
CreateOrderFails ==
    \/ \E u \in Users, d \in CheckoutOrderData : create_order_begin(u, d) /\ tx' = tx
    \/ \E s \in Slots : create_order_commit(s) /\ resp'.result # "ok"

C2_PaidOnlyAfterVerification ==
    \A o \in OrderIds :
        orders[o].status = "paid" =>
            <<orders[o].razorpay_order_id, orders[o].razorpay_payment_id>> \in verified

\* C4: a payment confirmation whose signature does not verify fails with the
\* signature error and changes nothing: the order keeps its status and its
\* null payment id, the caller's cart keeps its items, nothing is dispatched.
C4_BadSignatureChangesNothing ==
    [][\A u \in Users, pid \in PaymentIds :
         \A sig \in Signatures(resp'.ref, pid) \ {ExpectedSignature(resp'.ref, pid)} :
            ( /\ resp'.op = "verify_payment"
              /\ resp'.result # "Payment verification service error"
              /\ verify_payment_endpoint(u, resp'.ref, pid, sig) )
            => /\ resp'.result = "Signature verification failed"
               /\ UNCHANGED <<orders, carts, codes, returns, checkout>>
               /\ mail' = <<>>]_vars

\* a confirmation was rejected for a pending order while the carts held items
C4_Witness ==
    /\ resp.op = "verify_payment"
    /\ resp.result = "Signature verification failed"
    /\ \E o \in OrderIds :
          /\ orders[o].razorpay_order_id = resp.ref
          /\ orders[o].status = "pending"
          /\ orders[o].razorpay_payment_id = None
    /\ \A u \in Users : Items(carts[u]) # <<>>

\* a confirmation of (gid, pid) has succeeded before
AlreadyConfirmed(gid, pid) ==
    /\ <<gid, pid>> \in verified
    /\ \E o \in OrderIds : /\ orders[o].razorpay_order_id = gid
                           /\ orders[o].razorpay_payment_id = pid

\* C5: after a successful payment confirmation, a second confirmation with
\* the same valid arguments changes no state (order, payment id, discount
\* counters, cart) and dispatches no further notification.
C5_SecondConfirmIsNoOp ==
    [][\A u \in Users, pid \in PaymentIds :
          ( /\ resp'.op = "verify_payment"
            /\ AlreadyConfirmed(resp'.ref, pid)
            /\ verify_payment_endpoint(u, resp'.ref, pid,
                                        ExpectedSignature(resp'.ref, pid)) )
          => /\ UNCHANGED <<orders, carts, codes>>
             /\ mail' = <<>>]_vars


\* C6: every created order's total_amount equals
\* max(subtotal - discount + shipping_fee, 0), the subtotal taken over the
\* order's own item snapshot, and stays so after later cart writes, cart
\* clearing, discount-code changes and status transitions.
C6_TotalMatchesSnapshot ==
    \A o \in OrderIds :
        LET raw == Subtotal(orders[o].items) - ledger[o].discount + orders[o].shipping_fee
        IN  orders[o].total_amount = IF raw > 0 THEN raw ELSE 0

\* an order priced with a code and floored at zero, now paid, while the cart
\* and the code have changed since
C6_Witness ==
    \E o \in OrderIds :
        /\ ledger[o].code # 0
        /\ ledger[o].discount > 0
        /\ Subtotal(orders[o].items) - ledger[o].discount + orders[o].shipping_fee < 0
        /\ orders[o].status = "paid"
        /\ Items(carts[orders[o].user_id]) # orders[o].items
        /\ Discount(codes[ledger[o].code], Subtotal(orders[o].items)) # ledger[o].discount


\* C8: under any interleaving of return requests (two concurrent ones for
\* the same delivered order included) and admin operations, at most one
\* ReturnRequest exists per order.
C8_OneReturnPerOrder ==
    \A o \in OrderIds : Cardinality(ReturnsOf(o)) <= 1

Owned(u, id) == IF id \in OrderIds THEN orders[id].user_id = u ELSE FALSE

InWindow(id) == (now - orders[id].created_at) \div HoursPerDay <= ReturnWindowDays

NotFoundError == "Order not found"

InvalidStateError == "Only delivered orders can be returned"

WindowExpiredError == "Return window has expired (7 days from order date)"

DuplicateRequestError == "A return request for this order already exists"

\* C9: a return request checks ownership, status, window, duplicate in that
\* order and reports the first that fails: not owned gives the not-found
\* error whatever the status; owned and not DELIVERED gives the state error
\* even when the window is over or a request exists; owned, DELIVERED and out
\* of the window gives the window error even when a request exists; the
\* duplicate error is given only when the first three checks pass.
C9_FirstFailingCheckReported ==
    [][\A u \in Users, id \in 1..MaxOrders :
          initiate_return_begin(u, id, "reason") =>
             /\ ~Owned(u, id) => resp'.result = NotFoundError
             /\ (Owned(u, id) /\ orders[id].status # "delivered")
                   => resp'.result = InvalidStateError
             /\ (Owned(u, id) /\ orders[id].status = "delivered" /\ ~InWindow(id))
                   => resp'.result = WindowExpiredError
             /\ (Owned(u, id) /\ orders[id].status = "delivered" /\ InWindow(id)
                   /\ ReturnsOf(id) # {})
                   => resp'.result = DuplicateRequestError
             /\ (tx' = tx /\ resp'.result = DuplicateRequestError)
                   => /\ Owned(u, id) /\ orders[id].status = "delivered"
                      /\ InWindow(id) /\ ReturnsOf(id) # {}]_vars

\* the window error was reported for a delivered order that has a request
C9_Witness ==
    /\ resp.op = "initiate_return"
    /\ resp.result = WindowExpiredError
    /\ orders[resp.ref].status = "delivered"
    /\ ReturnsOf(resp.ref) # {}

\* the owner's return request for order id was the last handler to complete,
\* and it succeeded
ReturnJustRequested(u, id) ==
    /\ resp = ResponseFor("initiate_return", id, "ok")
    /\ returns # <<>>
    /\ returns[Len(returns)].order_id = id
    /\ returns[Len(returns)].user_id = u

\* C10 as stated: a second return request made right after a successful one
\* fails with the duplicate error and leaves the order and the requests as
\* they are.
C10_SecondReturnIsDuplicate ==
    [][\A u \in Users, id \in 1..MaxOrders :
          (ReturnJustRequested(u, id) /\ initiate_return_begin(u, id, "reason"))
          => /\ resp'.result = DuplicateRequestError
             /\ UNCHANGED <<orders, returns>>]_vars

\* C10 as amended: a second return request made right after a successful one
\* fails with the state error (the first one moved the order to
\* RETURN_REQUESTED, and the status check comes before the duplicate check)
\* and leaves the order and the requests as they are.
C10_SecondReturnIsInvalidState ==
    [][\A u \in Users, id \in 1..MaxOrders :
          (ReturnJustRequested(u, id) /\ initiate_return_begin(u, id, "reason"))
          => /\ resp' = ResponseFor("initiate_return", id, InvalidStateError)
             /\ tx' = tx
             /\ UNCHANGED <<orders, returns>>]_vars

\* the second request was refused: the order is RETURN_REQUESTED with its one
\* pending request
C10_Witness ==
    /\ resp.op = "initiate_return"
    /\ resp.result = InvalidStateError
    /\ orders[resp.ref].status = "return_requested"
    /\ \E r \in ReturnsOf(resp.ref) :
          /\ ReturnsOf(resp.ref) = {r}
          /\ returns[r].status = "pending"
          /\ returns[r].user_id = orders[resp.ref].user_id

\* C11: for an owned DELIVERED order without a return request, a return
\* request passes the checks exactly when the whole days elapsed since the
\* order's creation timestamp are at most 7: up to 7 days and 23 hours it goes
\* on to the commit, from 8 days on it is rejected with the window error.
C11_WindowCountsDaysSinceCreation ==
    [][\A u \in Users, id \in 1..MaxOrders :
          ( /\ initiate_return_begin(u, id, "reason")
            /\ Owned(u, id)
            /\ orders[id].status = "delivered"
            /\ ReturnsOf(id) = {} )
          => IF now - orders[id].created_at < (ReturnWindowDays + 1) * HoursPerDay
             THEN /\ \E s \in Slots : /\ tx[s] = Idle
                                      /\ tx'[s].op = "initiate_return"
                                      /\ tx'[s].order = id
                  /\ resp' = resp
             ELSE /\ resp' = ResponseFor("initiate_return", id, WindowExpiredError)
                  /\ tx' = tx]_vars

\* an order exactly 8 days old, delivered and without a request, was refused
C11_Witness ==
    /\ resp.op = "initiate_return"
    /\ resp.result = WindowExpiredError
    /\ orders[resp.ref].status = "delivered"
    /\ ReturnsOf(resp.ref) = {}
    /\ now - orders[resp.ref].created_at = (ReturnWindowDays + 1) * HoursPerDay

\* C12: a return request creates the ReturnRequest and moves the order to
\* RETURN_REQUESTED as one unit: the commit either inserts a new PENDING
\* request for the order and leaves the order RETURN_REQUESTED, or fails and
\* changes neither; the part before the commit changes neither.
C12_ReturnCommitsAsOneUnit ==
    [][/\ \A s \in Slots :
             initiate_return_commit(s) =>
                \/ /\ resp' = ResponseFor("initiate_return", tx[s].order, "ok")
                   /\ returns' = Append(returns,
                         [order_id |-> tx[s].order, user_id |-> tx[s].user,
                          reason |-> tx[s].reason, status |-> "pending"])
                   /\ orders'[tx[s].order].status = "return_requested"
                \/ /\ resp' = ResponseFor("initiate_return", tx[s].order,
                                          "Could not save return request")
                   /\ UNCHANGED <<orders, returns>>
       /\ \A u \in Users, id \in 1..MaxOrders :
             initiate_return_begin(u, id, "reason") => UNCHANGED <<orders, returns>>]_vars

\* the commit of a return request failed: the order is still DELIVERED and
\* has no request
C12_Witness ==
    /\ resp.op = "initiate_return"
    /\ resp.result = "Could not save return request"
    /\ orders[resp.ref].status = "delivered"
    /\ ReturnsOf(resp.ref) = {}

\* C13: an admin decision on a return request sets the request's status to
\* the decision and, in the same commit, moves the linked order to RETURNED
\* on APPROVED and to DELIVERED on REJECTED; when the commit fails neither the
\* request nor the order changes.
C13_DecisionMovesRequestAndOrder ==
    [][\A id \in 1..MaxConc + 1, status \in {"approved", "rejected"} :
          (admin_update_return_status(id, status) /\ id \in 1..Len(returns))
          => \/ /\ resp'.result = "ok"
                /\ returns' = [returns EXCEPT ![id].status = status]
                /\ orders' = [orders EXCEPT ![returns[id].order_id].status =
                                 IF status = "approved" THEN "returned" ELSE "delivered"]
             \/ /\ resp'.result = "Failed to update return status"
                /\ UNCHANGED <<orders, returns>>]_vars

\* a request was rejected and its order is DELIVERED again
C13_Witness ==
    /\ resp.op = "admin_update_return_status"
    /\ resp.result = "ok"
    /\ orders[resp.ref].status = "delivered"
    /\ \E r \in ReturnsOf(resp.ref) : returns[r].status = "rejected"

\* C14: every order is created PENDING, and an order that is RETURNED or
\* FAILED keeps that status under every later operation.
C14_TerminalStatusesStay ==
    [][/\ Len(orders') > Len(orders) => orders'[Len(orders')].status = "pending"
       /\ \A o \in OrderIds :
             orders[o].status \in {"returned", "failed"}
                => orders'[o].status = orders[o].status]_vars

PaymentVerificationFailed == "Signature verification failed"

VerificationServiceError == "Payment verification service error"

\* C15: an error of the verification service other than a signature mismatch
\* fails the confirmation with the service error, which is not the signature
\* error, and changes no order, payment id or cart; a retry with the valid
\* arguments right after it, when it gets through, marks the order paid with
\* the payment id and empties the caller's cart as a first call does.
C15_ServiceErrorChangesNothing ==
    [][/\ VerificationServiceError # PaymentVerificationFailed
       /\ (resp'.op = "verify_payment" /\ resp'.result = VerificationServiceError)
             => /\ UNCHANGED <<orders, carts, codes, returns, checkout>>
                /\ mail' = <<>>
       /\ \A u \in Users, pid \in PaymentIds :
             ( /\ resp.op = "verify_payment"
               /\ resp.result = VerificationServiceError
               /\ resp'.op = "verify_payment"
               /\ resp'.ref = resp.ref
               /\ resp'.result = "ok"
               /\ OrderByGatewayId(resp.ref) # 0
               /\ verify_payment_endpoint(u, resp.ref, pid,
                                           ExpectedSignature(resp.ref, pid)) )
             => /\ orders' = [orders EXCEPT
                                ![OrderByGatewayId(resp.ref)].status = "paid",
                                ![OrderByGatewayId(resp.ref)].razorpay_payment_id = pid]
                /\ Items(carts'[u]) = <<>>
                /\ \A v \in Users \ {u} : carts'[v] = carts[v]]_vars

\* the service failed on the confirmation of a pending order: the order is
\* still pending without a payment id, and the carts still hold their items
C15_Witness ==
    /\ resp.op = "verify_payment"
    /\ resp.result = VerificationServiceError
    /\ \E o \in OrderIds :
          /\ orders[o].razorpay_order_id = resp.ref
          /\ orders[o].status = "pending"
          /\ orders[o].razorpay_payment_id = None
    /\ \A u \in Users : Items(carts[u]) # <<>>

\* C16: a successful payment confirmation empties the cart of the account
\* that owns the matched order and changes no other account's cart, whichever
\* account makes the call.
C16_OwnerCartEmptied ==
    [][\A u \in Users, pid \in PaymentIds :
          ( /\ resp'.op = "verify_payment"
            /\ resp'.result = "ok"
            /\ OrderByGatewayId(resp'.ref) # 0
            /\ verify_payment_endpoint(u, resp'.ref, pid,
                                        ExpectedSignature(resp'.ref, pid)) )
          => LET owner == orders[OrderByGatewayId(resp'.ref)].user_id
             IN  /\ Items(carts'[owner]) = <<>>
                 /\ \A v \in Users \ {owner} : carts'[v] = carts[v]]_vars

\* C17: for every non-empty cart and every accepted discount code of either
\* kind, with any stored discount_value, the discount an order creation
\* applies is at most the subtotal; for a fixed-amount code it is
\* min(discount_value, subtotal).
C17_DiscountWithinSubtotal ==
    [][\A s \in Slots :
          (tx[s] = Idle /\ tx'[s].op = "create_order" /\ tx'[s].redeem # 0)
          => LET t        == tx'[s]
                 subtotal == Subtotal(t.items)
                 value    == codes[t.redeem].discount_value
             IN  /\ t.discount <= subtotal
                 /\ codes[t.redeem].discount_type = "fixed"
                       => t.discount = IF value <= subtotal THEN value ELSE subtotal]_vars

C19_IntentCorrelatedOrLoudFailure ==
    [][/\ \A s \in Slots :
             create_order_commit(s) =>
                \/ /\ resp' = Response("create_order", "ok")
                   /\ Len(orders') = Len(orders) + 1
                   /\ orders'[Len(orders')].razorpay_order_id = tx[s].gid
                \/ /\ resp' = Response("create_order", "Could not process order.")
                   /\ orders' = orders
       /\ intents' # intents =>
             /\ intents' = intents + 1
             /\ \E s \in Slots : /\ tx[s] = Idle
                                  /\ tx'[s].op = "create_order"
                                  /\ tx'[s].gid = intents'
       /\ \A u \in Users, d \in CheckoutOrderData :
             (create_order_begin(u, d) /\ tx' = tx) => intents' = intents]_vars

\* the latest intent is on a persisted order, and an earlier one was lost to
\* a failed commit
C19_Witness ==
    /\ resp = Response("create_order", "ok")
    /\ \E o \in OrderIds : orders[o].razorpay_order_id = intents
    /\ intents > Len(orders) + CreatesInFlight

\* the handlers that dispatch notifications after their commit
NotifyingHandlers ==
    {"verify_payment", "admin_update_order_status", "initiate_return",
     "admin_update_return_status"}

\* a step in which a handler answers: no handler slot is taken
HandlerCompletes == \A s \in Slots : tx[s] = Idle => tx'[s] = Idle

\* C20: a failure while dispatching a notification never undoes the
\* committed transition and never changes the result: whenever payment
\* confirmation, an admin status change, a return request or a return
\* decision has committed a change, it answers success, whatever part of its
\* notifications got out; a failed commit dispatches nothing.
C20_DispatchFailureKeepsSuccess ==
    [][(resp'.op \in NotifyingHandlers /\ HandlerCompletes)
          => /\ (orders' # orders \/ returns' # returns) => resp'.result = "ok"
             /\ resp'.result # "ok" => (mail' = <<>> /\ UNCHANGED <<orders, returns, carts>>)
             /\ (resp'.op = "initiate_return" /\ resp'.result = "ok")
                   => /\ orders'[resp'.ref].status = "return_requested"
                      /\ Len(returns') = Len(returns) + 1
             /\ (resp'.op = "verify_payment" /\ resp'.result = "ok"
                    /\ OrderByGatewayId(resp'.ref) # 0)
                   => orders'[OrderByGatewayId(resp'.ref)].status = "paid"]_vars

\* a return request succeeded although its admin notification failed: the
\* order is RETURN_REQUESTED and only the customer notification got out
C20_Witness ==
    /\ resp = ResponseFor("initiate_return", resp.ref, "ok")
    /\ resp.op = "initiate_return"
    /\ mail = <<"return_requested">>
    /\ orders[resp.ref].status = "return_requested"
    /\ ReturnsOf(resp.ref) # {}

\* C21: in payment confirmation, admin status change, return request and
\* return decision every notification goes out only after the commit of the
\* transition it reports: a handler that dispatched anything answered
\* success and the transition is in the store, and a handler whose commit
\* failed dispatched nothing.
C21_DispatchOnlyAfterCommit ==
    [][(resp'.op \in NotifyingHandlers /\ HandlerCompletes)
          => /\ mail' # <<>> => resp'.result = "ok"
             /\ resp'.result \in {"Payment validated but failed to update order status.",
                                  "Failed to update order status.",
                                  "Could not save return request",
                                  "Failed to update return status"}
                   => (mail' = <<>> /\ UNCHANGED db)
             /\ (mail' # <<>> /\ resp'.op = "verify_payment")
                   => \E o \in OrderIds : /\ orders'[o].razorpay_order_id = resp'.ref
                                          /\ orders'[o].status = "paid"
             /\ (mail' # <<>> /\ resp'.op = "initiate_return")
                   => /\ orders'[resp'.ref].status = "return_requested"
                      /\ \E r \in 1..Len(returns') :
                            /\ r > Len(returns)
                            /\ returns'[r].order_id = resp'.ref
             /\ (mail' = <<"returned">> /\ resp'.op = "admin_update_return_status")
                   => /\ orders'[resp'.ref].status = "returned"
                      /\ \E r \in 1..Len(returns') :
                            /\ returns'[r].order_id = resp'.ref
                            /\ returns'[r].status = "approved"
             /\ (mail' # <<>> /\ resp'.op = "admin_update_order_status")
                   => resp'.ref \in OrderIds]_vars

\* the commit of a valid payment confirmation failed: nothing was dispatched
\* and the order is still pending
C21_Witness ==
    /\ resp.op = "verify_payment"
    /\ resp.result = "Payment validated but failed to update order status."
    /\ mail = <<>>
    /\ \E o \in OrderIds : /\ orders[o].razorpay_order_id = resp.ref
                           /\ orders[o].status = "pending"

\* C22: for an account that does not own order X, a return request for X
\* and a read of X give the same not-found result and change nothing,
\* whether X exists (in any status, owned by another account) or not: the
\* answer depends on nothing but the request.
C22_ForeignOrderLooksMissing ==
    [][\A u \in Users, id \in 1..MaxOrders :
          ~Owned(u, id) =>
             /\ initiate_return_begin(u, id, "reason")
                   => /\ resp' = ResponseFor("initiate_return", id, NotFoundError)
                      /\ mail' = <<>>
                      /\ UNCHANGED <<db, tx>>
             /\ get_order(u, id)
                   => /\ resp' = ResponseFor("get_order", id, NotFoundError)
                      /\ mail' = <<>>
                      /\ UNCHANGED <<db, tx>>]_vars

\* a read of an existing, delivered order was answered not-found
C22_Witness ==
    /\ resp = ResponseFor("get_order", resp.ref, NotFoundError)
    /\ resp.op = "get_order"
    /\ resp.ref \in OrderIds
    /\ orders[resp.ref].status = "delivered"

\* C23: after a return request was rejected and the order is DELIVERED
\* again, a second return request by the owner, made within 7 days of the
\* order's creation, passes the checks and goes on to move the order to
\* RETURN_REQUESTED.
C23_ReturnPossibleAfterRejection ==
    [][\A u \in Users, id \in 1..MaxOrders :
          ( /\ Owned(u, id)
            /\ orders[id].status = "delivered"
            /\ InWindow(id)
            /\ ReturnsOf(id) # {}
            /\ \A r \in ReturnsOf(id) : returns[r].status = "rejected"
            /\ initiate_return_begin(u, id, "reason") )
          => \E s \in Slots : /\ tx[s] = Idle
                               /\ tx'[s].op = "initiate_return"
                               /\ tx'[s].order = id]_vars

\* C23 as amended: after a return request was rejected and the order is
\* DELIVERED again, a second return request by the owner within 7 days of
\* the order's creation is refused with the duplicate error, because the
\* rejected request still exists, and changes nothing.
C23_ReturnAfterRejectionIsDuplicate ==
    [][\A u \in Users, id \in 1..MaxOrders :
          ( /\ Owned(u, id)
            /\ orders[id].status = "delivered"
            /\ InWindow(id)
            /\ ReturnsOf(id) # {}
            /\ \A r \in ReturnsOf(id) : returns[r].status = "rejected"
            /\ initiate_return_begin(u, id, "reason") )
          => /\ resp' = ResponseFor("initiate_return", id, DuplicateRequestError)
             /\ UNCHANGED <<db, tx>>]_vars

\* the owner's new request for a delivered order whose only request was
\* rejected got the duplicate error
C23_Witness ==
    /\ resp.op = "initiate_return"
    /\ resp.result = DuplicateRequestError
    /\ orders[resp.ref].status = "delivered"
    /\ Cardinality(ReturnsOf(resp.ref)) = 1
    /\ \A r \in ReturnsOf(resp.ref) : returns[r].status = "rejected"

\* C24: once an order exists, no operation changes its item snapshot,
\* shipping address, shipping_fee, total_amount, owner or gateway order id;
\* only its status and payment id change.
C24_OrderSnapshotFrozen ==
    [][\A o \in OrderIds :
          /\ o \in 1..Len(orders')
          /\ orders'[o] = [orders[o] EXCEPT
                              !.status = orders'[o].status,
                              !.razorpay_payment_id = orders'[o].razorpay_payment_id]]_vars

\* an order went from checkout to RETURNED with a payment id, while its
\* owner's cart came to hold other items and a discount code was changed
C24_Witness ==
    \E o \in OrderIds :
        /\ orders[o].status = "returned"
        /\ orders[o].razorpay_payment_id # None
        /\ Items(carts[orders[o].user_id]) # <<>>
        /\ Items(carts[orders[o].user_id]) # orders[o].items
        /\ codes[1].discount_value = 50

\* a code string as strip() and upper() leave it
IsNormalized(c) ==
    /\ \A i \in 1..Len(c) : c[i] \notin {"a", "b", "c", "d"}
    /\ c # <<>> => (c[1] # " " /\ c[Len(c)] # " ")

\* the texts a checkout may send for a code
LookupTexts == {<<"a">>, <<"A">>, <<" ", "d">>, <<"D", " ">>, <<"b">>}

C30_AdminKeepsCounterWithinMax ==
    \A id \in DOMAIN codes :
        /\ 0 <= codes[id].times_redeemed
        /\ codes[id].times_redeemed <= codes[id].max_redeems

\* C26: a verified payment confirmation changes an order's status only when
\* the order is PENDING; an order in any other status keeps it, so PENDING to
\* PAID is the only status change a confirmation makes.
C26_ConfirmOnlyMovesPending ==
    [][\A u \in Users, pid \in PaymentIds :
          ( /\ resp'.op = "verify_payment"
            /\ resp'.result = "ok"
            /\ verify_payment_endpoint(u, resp'.ref, pid,
                                        ExpectedSignature(resp'.ref, pid)) )
          => \A o \in OrderIds :
                orders[o].status # "pending" => orders'[o].status = orders[o].status]_vars

\* C27: for every discount code, after any interleaving of order creations,
\* times_redeemed has grown from its initial 0 by the number of committed
\* order creations that used the code.
C27_CounterCountsRedemptions ==
    \A id \in DOMAIN codes : codes[id].times_redeemed = Cardinality(RedeemedBy(id))

\* C28: an order has a payment id only if a signature verification returned
\* true for its gateway order id and that payment id; a new order has none,
\* and only a verified payment confirmation writes one.
C28_PaymentIdOnlyFromVerification ==
    [][/\ \A o \in 1..Len(orders') :
             orders'[o].razorpay_payment_id # None
                => <<orders'[o].razorpay_order_id, orders'[o].razorpay_payment_id>>
                      \in verified'
       /\ Len(orders') > Len(orders)
             => orders'[Len(orders')].razorpay_payment_id = None
       /\ \A o \in OrderIds :
             orders'[o].razorpay_payment_id # orders[o].razorpay_payment_id
                => /\ resp' = ResponseFor("verify_payment", orders[o].razorpay_order_id, "ok")
                   /\ <<orders[o].razorpay_order_id, orders'[o].razorpay_payment_id>>
                         \in verified']_vars

\* a paid order was shipped and a forged confirmation for it was rejected:
\* it still carries the payment id that was verified
C28_Witness ==
    /\ resp.op = "verify_payment"
    /\ resp.result = PaymentVerificationFailed
    /\ \E o \in OrderIds :
          /\ orders[o].razorpay_order_id = resp.ref
          /\ orders[o].status = "shipped"
          /\ orders[o].razorpay_payment_id # None
          /\ <<orders[o].razorpay_order_id, orders[o].razorpay_payment_id>> \in verified

\* C29: after any sequence of return requests, return decisions and admin
\* status changes, an order is RETURN_REQUESTED exactly when it has a PENDING
\* ReturnRequest, an order with an APPROVED request is RETURNED, and an order
\* with a REJECTED request is DELIVERED.
C29_OrderAndReturnStatusAgree ==
    \A o \in OrderIds :
        /\ orders[o].status = "return_requested"
              <=> \E r \in ReturnsOf(o) : returns[r].status = "pending"
        /\ \A r \in ReturnsOf(o) :
              /\ returns[r].status = "approved" => orders[o].status = "returned"
              /\ returns[r].status = "rejected" => orders[o].status = "delivered"

====
